---- MODULE Spec2Model ----
(***************************************************************************)
(* Model of the OCR phone-number extraction pipeline of                    *)
(* src/ocr_processor.py (class EnhancedOCRProcessor).                      *)
(*                                                                         *)
(* A text is a sequence of characters.  A character is a one-character     *)
(* string for ASCII, and the string "U+xxxx" for the non-ASCII code point  *)
(* xxxx (SANY reads ASCII only).  Chars("abc") = <<"a", "b", "c">>.        *)
(***************************************************************************)
EXTENDS Integers, Sequences, FiniteSets, TLC

VARIABLES
    text,      \* argument of the pure text functions (SpecText)
    phones,    \* set returned by extract_phone_numbers(text)
    valid,     \* value returned by validate_egyptian_phone(text)
    once,      \* the normalization step of the pattern loop applied to text
    twice,     \* the normalization step applied to once
    tpc,       \* position of the pure-function run: "input", "extracted", "validated",
               \* "normalized"
    pc,        \* position of the extraction call: "idle", "sweep", "method2", "returned"
    entry,     \* the entry point of the current call
    cfg,       \* index in ocr_configs of the next configuration of the sweep
    extracted_data,  \* the list extract_from_image_data builds
    calls,     \* the recognition attempts of the current call, in order
    result,    \* the list the entry point returned
    ncalls,    \* extraction calls started on this processor
    source,    \* what the entry point got: "image", "absent" (clipboard without an
               \* image), "unreadable" (the file did not open), "failed" (the grab raised)
    engine,    \* the Tesseract engine pytesseract runs: "present" or "missing"
    ctext,     \* determine_carrier's argument text (SpecCarrier)
    cphone,    \* determine_carrier's argument phone_number
    carrier,   \* value returned by determine_carrier(ctext, cphone)
    pimage,    \* preprocess_image's argument image (SpecPre)
    pout,      \* the image preprocess_image returned
    praised,   \* whether a transform step raised in that call
    ppc,       \* position of the preprocessing run: "input", "returned"
    customers,      \* rows of table customers (SpecStore)
    phone_numbers,  \* rows of table phone_numbers
    seq,            \* the AUTOINCREMENT counter of phone_numbers: the last id given
    last,           \* the last call on the CustomerManager and how it ended
    nops,           \* calls made on the CustomerManager
    results,   \* list returned by process_extracted_text(ctext)
    cpc        \* position of the attribution run: "input", "classified",
               \* "prefix_classified", "processed"

tvars == <<text, phones, valid, once, twice, tpc>>
ovars == <<pc, entry, cfg, extracted_data, calls, result, ncalls, source, engine>>
cvars == <<ctext, cphone, carrier, results, cpc>>
pvars == <<pimage, pout, praised, ppc>>
store == <<customers, phone_numbers, seq>>
svars == <<customers, phone_numbers, seq, last, nops>>
vars == <<text, phones, valid, once, twice, tpc, pc, entry, cfg, extracted_data, calls, result, ncalls,
          source, engine,
          ctext, cphone, carrier, results, cpc, pimage, pout, praised, ppc,
          customers, phone_numbers, seq, last, nops>>

-----------------------------------------------------------------------------
(* Characters and Python's character classes                               *)

Chars(s) == [i \in 1..Len(s) |-> SubSeq(s, i, i)]

\* ARABIC-INDIC DIGIT THREE: str.isdigit() is True, \w matches, [0-9] does not.
ArabicIndicThree == "U+0663"

AsciiDigits == {"0", "1", "2", "3", "4", "5", "6", "7", "8", "9"}

AsciiLetters ==
    {"a", "b", "c", "d", "e", "f", "g", "h", "i", "j", "k", "l", "m", "n", "o",
     "p", "q", "r", "s", "t", "u", "v", "w", "x", "y", "z",
     "A", "B", "C", "D", "E", "F", "G", "H", "I", "J", "K", "L", "M", "N", "O",
     "P", "Q", "R", "S", "T", "U", "V", "W", "X", "Y", "Z"}

\* the class [0-9] of the patterns and of re.sub(r'[^0-9]', ...)
IsAsciiDigit(c) == c \in AsciiDigits

\* str.isdigit() on one character
IsDigitChar(c) == c \in AsciiDigits \/ c = ArabicIndicThree

\* the class \w of a str pattern: Unicode letters and digits, and "_"
IsWordChar(c) ==
    \/ c \in AsciiDigits
    \/ c \in AsciiLetters
    \/ c = "_"
    \/ (Len(c) > 1)          \* the non-ASCII characters of the model are letters or digits

\* the characters str.strip() removes
IsSpaceChar(c) == c \in {" ", "\n", "\t"}

-----------------------------------------------------------------------------
(* Helpers on texts                                                        *)

StartsWith(s, p) == Len(s) >= Len(p) /\ SubSeq(s, 1, Len(p)) = p

\* s[n:]
DropFirst(s, n) == SubSeq(s, n + 1, Len(s))

UpperLetters == Chars("ABCDEFGHIJKLMNOPQRSTUVWXYZ")
LowerLetters == Chars("abcdefghijklmnopqrstuvwxyz")

\* str.lower(): the Arabic characters have no case
LowerChar(c) ==
    IF \E i \in 1..26 : UpperLetters[i] = c
    THEN LowerLetters[CHOOSE i \in 1..26 : UpperLetters[i] = c]
    ELSE c
Lower(s) == [i \in 1..Len(s) |-> LowerChar(s[i])]

\* kw in s
Contains(s, kw) == \E i \in 1..(Len(s) - Len(kw) + 1) : SubSeq(s, i, i + Len(kw) - 1) = kw

\* s.strip()
Strip(s) ==
    LET keep == { i \in 1..Len(s) : ~IsSpaceChar(s[i]) }
    IN  IF keep = {} THEN <<>>
        ELSE SubSeq(s, CHOOSE i \in keep : \A j \in keep : i <= j,
                       CHOOSE i \in keep : \A j \in keep : i >= j)

\* re.sub(r'[- +()]', '', match)
NotSeparator(c) == c \notin {"-", " ", "+", "(", ")"}
CleanNumber(match) == SelectSeq(match, NotSeparator)

\* re.sub(r'[^0-9]', '', text)
DigitOnly(t) == SelectSeq(t, IsAsciiDigit)

-----------------------------------------------------------------------------
(* The regular expressions of extract_phone_numbers.  A pattern is a       *)
(* sequence of elements: "b" is \b, "lit" one literal character, "dig" the *)
(* class [0-9], "optsep" the optional class [- ]?.                         *)

Lit(s) == [i \in 1..Len(s) |-> [k |-> "lit", c |-> SubSeq(s, i, i)]]
Dig(n) == [i \in 1..n |-> [k |-> "dig", c |-> ""]]
WordB == <<[k |-> "b", c |-> ""]>>
OptSep == <<[k |-> "optsep", c |-> ""]>>

\* a pattern list with the national form 1[0-9]{9}, which the branch for
\* ten characters that start with 1 completes with a 0
enhanced_patterns_TenDigits ==
    << WordB \o Lit("01") \o Dig(9) \o WordB,
       Lit("1") \o Dig(9) >>

enhanced_patterns ==
    << WordB \o Lit("01") \o Dig(9) \o WordB,
       WordB \o Lit("01") \o Dig(1) \o OptSep \o Dig(4) \o OptSep \o Dig(4) \o WordB,
       WordB \o Lit("+201") \o Dig(9) \o WordB,
       WordB \o Lit("00201") \o Dig(9) \o WordB,
       WordB \o Lit("201") \o Dig(9) \o WordB,
       Lit("011") \o Dig(8),
       Lit("010") \o Dig(8),
       Lit("012") \o Dig(8),
       Lit("015") \o Dig(8),
       Lit("01128794048"),
       Lit("01128794050") >>

\* \b at position i (between t[i-1] and t[i]): exactly one side is a word character
WordBoundary(t, i) ==
    LET before == i > 1 /\ IsWordChar(t[i - 1])
        after == i <= Len(t) /\ IsWordChar(t[i])
    IN  before # after

\* The position after the match of pat[k..] that starts at t[i], 0 when there is
\* none; the optional element is greedy and backtracks.
RECURSIVE MatchHere(_, _, _, _)
MatchHere(pat, k, t, i) ==
    IF k > Len(pat) THEN i
    ELSE
        CASE pat[k].k = "b" ->
                IF WordBoundary(t, i) THEN MatchHere(pat, k + 1, t, i) ELSE 0
          [] pat[k].k = "lit" ->
                IF i <= Len(t) /\ t[i] = pat[k].c
                THEN MatchHere(pat, k + 1, t, i + 1) ELSE 0
          [] pat[k].k = "dig" ->
                IF i <= Len(t) /\ IsAsciiDigit(t[i])
                THEN MatchHere(pat, k + 1, t, i + 1) ELSE 0
          [] pat[k].k = "optsep" ->
                LET taken == IF i <= Len(t) /\ t[i] \in {"-", " "}
                             THEN MatchHere(pat, k + 1, t, i + 1) ELSE 0
                IN  IF taken # 0 THEN taken ELSE MatchHere(pat, k + 1, t, i)

\* re.findall(pattern, text): the non-overlapping matches, scanning left to right
RECURSIVE FindAll(_, _, _)
FindAll(pat, t, pos) ==
    IF pos > Len(t) THEN <<>>
    ELSE LET e == MatchHere(pat, 1, t, pos)
         IN  IF e # 0
             THEN <<SubSeq(t, pos, e - 1)>> \o FindAll(pat, t, e)
             ELSE FindAll(pat, t, pos + 1)

-----------------------------------------------------------------------------
(* validate_egyptian_phone and extract_phone_numbers                       *)

PhoneLen == 11

valid_prefixes == {Chars("010"), Chars("011"), Chars("012"), Chars("015")}

\* validate_egyptian_phone without the check of the prefix
validate_AnyThirdDigit(phone) ==
    /\ Len(phone) = PhoneLen
    /\ StartsWith(phone, Chars("01"))
    /\ \A i \in 4..Len(phone) : IsDigitChar(phone[i])

validate_egyptian_phone(phone) ==
    IF phone = <<>> \/ Len(phone) # PhoneLen THEN FALSE
    ELSE IF ~StartsWith(phone, Chars("01")) THEN FALSE
    ELSE /\ SubSeq(phone, 1, 3) \in valid_prefixes
         /\ \A i \in 4..Len(phone) : IsDigitChar(phone[i])

\* lines 175-185: strip the separators, then replace the country code
NormalizeMatch(match) ==
    LET clean_number == CleanNumber(match)
    IN  IF StartsWith(clean_number, Chars("00201")) THEN <<"0">> \o DropFirst(clean_number, 5)
        ELSE IF StartsWith(clean_number, Chars("+201")) THEN <<"0">> \o DropFirst(clean_number, 4)
        ELSE IF StartsWith(clean_number, Chars("201")) THEN <<"0">> \o DropFirst(clean_number, 3)
        ELSE IF Len(clean_number) = 10 /\ StartsWith(clean_number, Chars("1"))
             THEN <<"0">> \o clean_number
        ELSE clean_number

\* re.findall(pattern, text) as the set of its matches
MatchesOf(pat, t) ==
    LET found == FindAll(pat, t, 1)
    IN  { found[j] : j \in 1..Len(found) }

\* lines 171-189: the numbers the pattern loop adds
PatternPass(t) ==
    { n \in UNION { { NormalizeMatch(m) : m \in MatchesOf(enhanced_patterns[p], t) } :
                        p \in DOMAIN enhanced_patterns } :
        validate_egyptian_phone(n) }

\* extract_phone_numbers without its dense scan
DenseScan_Disabled(t) == {}

\* the dense scan accepting every window that starts with 01
DenseScan_NoValidation(t) ==
    LET digit_only == DigitOnly(t)
    IN  IF Len(digit_only) >= PhoneLen
        THEN { c \in { SubSeq(digit_only, i, i + 10) : i \in 1..(Len(digit_only) - 10) } :
                  StartsWith(c, Chars("01")) }
        ELSE {}

\* the dense scan with range(len(digit_only) - 11): the last window is not looked at
DenseScan_OffByOne(t) ==
    LET digit_only == DigitOnly(t)
    IN  IF Len(digit_only) >= PhoneLen
        THEN { c \in { SubSeq(digit_only, i, i + 10) : i \in 1..(Len(digit_only) - 11) } :
                  StartsWith(c, Chars("01")) /\ validate_egyptian_phone(c) }
        ELSE {}

\* lines 192-198: the 11-character windows of the digit-only text
DenseScan(t) ==
    LET digit_only == DigitOnly(t)
    IN  IF Len(digit_only) >= PhoneLen
        THEN { c \in { SubSeq(digit_only, i, i + 10) : i \in 1..(Len(digit_only) - 10) } :
                  StartsWith(c, Chars("01")) /\ validate_egyptian_phone(c) }
        ELSE {}

\* extract_phone_numbers with the pattern loop alone
extract_phone_numbers_NoDenseScan(t) ==
    IF t = <<>> THEN {} ELSE PatternPass(t)

\* the set of which the function returns list(...)
extract_phone_numbers(t) ==
    IF t = <<>> THEN {} ELSE PatternPass(t) \cup DenseScan(t)

-----------------------------------------------------------------------------
(* Carrier and wallet attribution                                          *)

\* 'orange' in Arabic, the carrier name the records carry
Orange == <<"U+0627", "U+0648", "U+0631", "U+0627", "U+0646", "U+062C">>

\* 'vodafone' in Arabic, the carrier name the records carry
Vodafone == <<"U+0641", "U+0648", "U+062F", "U+0627", "U+0641", "U+0648", "U+0646">>

\* 'etisalat' in Arabic, the carrier name the records carry
Etisalat == <<"U+0627", "U+062A", "U+0635", "U+0627", "U+0644", "U+0627", "U+062A">>

\* 'we' in Arabic, the carrier name the records carry
WE == <<"U+0648", "U+064A">>

\* self.network_keywords, in the dict's insertion order
\* the Arabic spelling of Vodafone that is its second keyword
VodafoneArabic == <<"U+0641", "U+0648", "U+062F", "U+0627", "U+0641", "U+0648", "U+0646">>

network_keywords ==
    <<
      [carrier |-> Orange,
       keywords |-> <<
           Chars("orange"),
           <<"U+0627", "U+0648", "U+0631", "U+0627", "U+0646", "U+062C">>,
           <<"U+0623", "U+0648", "U+0631", "U+0627", "U+0646", "U+062C">>,
           <<"U+0627", "U+0648", "U+0631", "U+0646", "U+062C">>,
           <<"U+0623", "U+0648", "U+0631", "U+0646", "U+062C">>,
           Chars("mobinil"),
           <<"U+0645", "U+0648", "U+0628", "U+064A", "U+0646", "U+064A", "U+0644">>,
           <<"U+0645", "U+0648", "U+0628", "U+0646", "U+064A", "U+0644">>,
           Chars("ORANGE"),
           Chars("Orange") >>],
      [carrier |-> Vodafone,
       keywords |-> <<
           Chars("vodafone"),
           <<"U+0641", "U+0648", "U+062F", "U+0627", "U+0641", "U+0648", "U+0646">>,
           <<"U+06A4", "U+0648", "U+062F", "U+0627", "U+0641", "U+0648", "U+0646">>,
           <<"U+0641", "U+0648", "U+062F", "U+0641", "U+0648", "U+0646">>,
           <<"U+06A4", "U+0648", "U+062F", "U+0641", "U+0648", "U+0646">>,
           Chars("VODAFONE"),
           Chars("Vodafone"),
           Chars("VF") >>],
      [carrier |-> Etisalat,
       keywords |-> <<
           Chars("etisalat"),
           <<"U+0627", "U+062A", "U+0635", "U+0627", "U+0644", "U+0627", "U+062A">>,
           <<"U+0625", "U+062A", "U+0635", "U+0627", "U+0644", "U+0627", "U+062A">>,
           <<"U+0627", "U+062A", "U+0635", "U+0644", "U+0627", "U+062A">>,
           <<"U+0625", "U+062A", "U+0635", "U+0644", "U+0627", "U+062A">>,
           Chars("ETISALAT"),
           Chars("Etisalat"),
           Chars("ET") >>],
      [carrier |-> WE,
       keywords |-> <<
           Chars("we"),
           <<"U+0648", "U+064A">>,
           <<"U+062A", "U+064A">> \o Chars(" ") \o <<"U+0625", "U+064A">> \o Chars(" ") \o <<"U+062F", "U+0627", "U+062A", "U+0627">>,
           <<"U+062A", "U+064A">> \o Chars(" ") \o <<"U+0627", "U+064A">> \o Chars(" ") \o <<"U+062F", "U+0627", "U+062A", "U+0627">>,
           Chars("te data"),
           Chars("tedata"),
           Chars("WE"),
           Chars("We"),
           Chars("TE DATA"),
           Chars("TEDATA") >>] >>

wallet_keywords ==
    <<
       Chars("wallet"),
       <<"U+0645", "U+062D", "U+0641", "U+0638", "U+0629">>,
       <<"U+0645", "U+062D", "U+0641", "U+0638", "U+0647">>,
       <<"U+0641", "U+0648", "U+062F", "U+0627", "U+0641", "U+0648", "U+0646">> \o Chars(" ") \o <<"U+0643", "U+0627", "U+0634">>,
       Chars("vodafone cash"),
       Chars("orange cash"),
       <<"U+0627", "U+0648", "U+0631", "U+0627", "U+0646", "U+062C">> \o Chars(" ") \o <<"U+0643", "U+0627", "U+0634">>,
       <<"U+0623", "U+0648", "U+0631", "U+0627", "U+0646", "U+062C">> \o Chars(" ") \o <<"U+0643", "U+0627", "U+0634">>,
       Chars("instapay"),
       <<"U+0627", "U+0646", "U+0633", "U+062A", "U+0627", "U+0628", "U+0627", "U+064A">>,
       <<"U+0641", "U+0648", "U+0631", "U+064A">>,
       Chars("fawry"),
       <<"U+0627", "U+064A", "U+0632", "U+064A">> \o Chars(" ") \o <<"U+067E", "U+0627", "U+064A">>,
       Chars("easy pay"),
       <<"U+0645", "U+062D", "U+0641", "U+0638", "U+0647">>,
       <<"U+0643", "U+0627", "U+0634">> >>

\* the prefix table with 011 mapped to Vodafone
determine_carrier_by_prefix_011Vodafone(phone_number) ==
    IF Len(phone_number) # PhoneLen \/ ~StartsWith(phone_number, Chars("01")) THEN Orange
    ELSE LET prefix == SubSeq(phone_number, 1, 3)
         IN  CASE prefix = Chars("010") -> Orange
               [] prefix = Chars("011") -> Vodafone
               [] prefix = Chars("012") -> Orange
               [] prefix = Chars("015") -> WE
               [] OTHER -> Orange

determine_carrier_by_prefix(phone_number) ==
    IF Len(phone_number) # PhoneLen \/ ~StartsWith(phone_number, Chars("01")) THEN Orange
    ELSE LET prefix == SubSeq(phone_number, 1, 3)
         IN  CASE prefix = Chars("010") -> Orange
               [] prefix = Chars("011") -> Etisalat
               [] prefix = Chars("012") -> Orange
               [] prefix = Chars("015") -> WE
               [] OTHER -> Orange

\* the prefix tier consulted first: the keywords are never looked at
determine_carrier_PrefixOnly(t, phone_number) == determine_carrier_by_prefix(phone_number)

\* the keyword loop returning the last carrier with a keyword in the text
determine_carrier_LastHit(t, phone_number) ==
    LET text_lower == Lower(t)
        hit == { c \in DOMAIN network_keywords :
                    \E k \in DOMAIN network_keywords[c].keywords :
                        Contains(text_lower, Lower(network_keywords[c].keywords[k])) }
    IN  IF hit # {}
        THEN network_keywords[CHOOSE c \in hit : \A d \in hit : c >= d].carrier
        ELSE determine_carrier_by_prefix(phone_number)

\* the first carrier, in the table's order, one of whose keywords occurs in the text
determine_carrier(t, phone_number) ==
    LET text_lower == Lower(t)
        hit == { c \in DOMAIN network_keywords :
                    \E k \in DOMAIN network_keywords[c].keywords :
                        Contains(text_lower, Lower(network_keywords[c].keywords[k])) }
    IN  IF hit # {}
        THEN network_keywords[CHOOSE c \in hit : \A d \in hit : c <= d].carrier
        ELSE determine_carrier_by_prefix(phone_number)

\* the wallet keywords compared without lower-casing either side
detect_wallet_mentions_CaseSensitive(t) ==
    IF t = <<>> THEN FALSE
    ELSE \E k \in DOMAIN wallet_keywords : Contains(t, wallet_keywords[k])

detect_wallet_mentions(t) ==
    IF t = <<>> THEN FALSE
    ELSE LET text_lower == Lower(t)
         IN  \E k \in DOMAIN wallet_keywords : Contains(text_lower, Lower(wallet_keywords[k]))

-----------------------------------------------------------------------------
(* Inputs of the pure text functions                                       *)

MaxSegs == 3

Segments ==
    { Chars("0"), Chars("20"), Chars("+20"), Chars("0020"), Chars("1098765432"),
      Chars("010-1234 5678"), Chars("01312345678"), Chars(" "), Chars("a"),
      Chars("9"), Chars("01") }

RECURSIVE Concats(_)
Concats(n) ==
    IF n = 0 THEN {<<>>}
    ELSE LET shorter == Concats(n - 1)
         IN  shorter \cup { t \o g : t \in shorter, g \in Segments }

\* the texts handed to extract_phone_numbers: up to MaxSegs segments
TextInputs == Concats(MaxSegs)

PrefixChars == {"0", "1", "2", "3", "5", "a"}

Tails ==
    { Chars("12345678"), Chars("1234567a"), Chars("1234567") \o <<ArabicIndicThree>>,
      Chars("1234 678"), Chars("1234567"), Chars("123456789"), <<>> }

\* the strings handed to validate_egyptian_phone: every 3-character head, a few tails
CandidateStrings ==
    {<<>>} \cup { <<a, b, c>> \o tl : a \in PrefixChars, b \in PrefixChars,
                                      c \in PrefixChars, tl \in Tails }

\* numbers in the forms the patterns accept: a country code or the 0, then the ten
\* national digits, plain or with separators
NationalDigits ==
    { Chars("1098765432"), Chars("1020112345"), Chars("1200201123"), Chars("102-0112 345") }

InternationalForms ==
    { cc \o nat : cc \in {Chars("+20"), Chars("0020"), Chars("20"), Chars("0")},
                  nat \in NationalDigits }

-----------------------------------------------------------------------------
(* CustomerManager over DatabaseManager: validation and the two tables     *)

MaxOps == 2
MaxBatch == 2
NationalIdLen == 14

\* PRAGMA foreign_keys is never issued: SQLite's default, foreign keys not enforced
foreign_keys == FALSE

\* the carriers add_phone_number accepts
accepted_carriers == <<Orange, Vodafone, Etisalat, WE>>

\* self.mobile_patterns: each pattern is its three-digit prefix, then \d{8}
mobile_patterns ==
    << [carrier |-> Orange, prefixes |-> <<Chars("010"), Chars("012")>>],
       [carrier |-> Vodafone, prefixes |-> <<Chars("010"), Chars("011")>>],
       [carrier |-> Etisalat, prefixes |-> <<Chars("011"), Chars("012")>>],
       [carrier |-> WE, prefixes |-> <<Chars("015")>>] >>

\* self.mobile_patterns.get(carrier, [])
PatternsOf(c) ==
    LET hit == { i \in DOMAIN mobile_patterns : mobile_patterns[i].carrier = c }
    IN  IF hit = {} THEN <<>> ELSE mobile_patterns[CHOOSE i \in hit : TRUE].prefixes

\* re.match(pattern, phone_number): the prefix, then 8 characters of class \d
MatchesPattern(prefix, s) ==
    /\ Len(s) >= PhoneLen
    /\ SubSeq(s, 1, 3) = prefix
    /\ \A i \in 4..PhoneLen : IsDigitChar(s[i])

validate_phone_number(phone_number, c) ==
    IF phone_number = <<>> \/ Len(phone_number) # PhoneLen THEN FALSE
    ELSE IF \E i \in DOMAIN phone_number : ~IsDigitChar(phone_number[i]) THEN FALSE
    ELSE \E k \in DOMAIN PatternsOf(c) : MatchesPattern(PatternsOf(c)[k], phone_number)

\* validate_national_id accepting any first digit
validate_national_id_AnyCentury(national_id) ==
    IF national_id = <<>> \/ Len(national_id) # NationalIdLen THEN FALSE
    ELSE \A i \in DOMAIN national_id : IsDigitChar(national_id[i])

validate_national_id(national_id) ==
    IF national_id = <<>> \/ Len(national_id) # NationalIdLen THEN FALSE
    ELSE IF \E i \in DOMAIN national_id : ~IsDigitChar(national_id[i]) THEN FALSE
    ELSE national_id[1] \in {"2", "3"}

\* not name or len(name.strip()) < 2
BadName(name) == name = <<>> \/ Len(Strip(name)) < 2

\* DatabaseManager.get_customer(national_id) is not None
get_customer(custs, national_id) == { c \in custs : c.national_id = national_id }

\* the rows DELETE FROM customers removes from phone_numbers: those of the
\* customer under ON DELETE CASCADE, when foreign keys are enforced
CascadeRows(rows, national_id) ==
    IF foreign_keys THEN { r \in rows : r.customer_national_id = national_id } ELSE {}

\* UNIQUE(customer_national_id, carrier, phone_number) forbids the insert
UniqueViolation(rows, national_id, c, phone_number) ==
    \E r \in rows : /\ r.customer_national_id = national_id
                     /\ r.carrier = c
                     /\ r.phone_number = phone_number

\* CustomerManager.add_phone_number on the rows and the counter: the error raised
\* ("none" when the row was inserted), the rows and the counter after the call
add_phone_number(custs, rows, sq, national_id, c, phone_number, has_wallet) ==
    IF get_customer(custs, national_id) = {}
    THEN [error |-> "customer not found", rows |-> rows, seq |-> sq]
    ELSE IF \A k \in DOMAIN accepted_carriers : accepted_carriers[k] # c
    THEN [error |-> "invalid carrier", rows |-> rows, seq |-> sq]
    ELSE IF ~validate_phone_number(phone_number, c)
    THEN [error |-> "invalid number", rows |-> rows, seq |-> sq]
    ELSE IF UniqueViolation(rows, national_id, c, phone_number)
    THEN [error |-> "number exists", rows |-> rows, seq |-> sq]
    ELSE [ error |-> "none",
           rows |-> rows \cup {[ id |-> sq + 1,
                                 customer_national_id |-> national_id,
                                 carrier |-> c,
                                 phone_number |-> phone_number,
                                 has_wallet |-> has_wallet ]},
           seq |-> sq + 1 ]

\* the loop of batch_add_phone_numbers leaving at the first failing item
RestAfterError_Abort(items) == <<>>

\* except Exception: the loop goes on with the next item
RestAfterError(items) == items

\* the loop of batch_add_phone_numbers over items, from the rows, the counter and
\* the results so far
RECURSIVE BatchLoop(_, _, _, _, _, _, _)
BatchLoop(custs, rows, sq, national_id, items, success, errors) ==
    IF items = <<>>
    THEN [rows |-> rows, seq |-> sq, success |-> success, errors |-> errors]
    ELSE LET phone_data == Head(items)
             r == IF {"carrier", "phone_number"} \subseteq DOMAIN phone_data
                  THEN add_phone_number(custs, rows, sq, national_id,
                                        phone_data.carrier, phone_data.phone_number,
                                        IF "has_wallet" \in DOMAIN phone_data
                                        THEN phone_data.has_wallet ELSE FALSE)
                  ELSE [error |-> "KeyError", rows |-> rows, seq |-> sq]
         IN  IF r.error = "none"
             THEN BatchLoop(custs, r.rows, r.seq, national_id, Tail(items),
                            Append(success, phone_data), errors)
             ELSE BatchLoop(custs, rows, sq, national_id, RestAfterError(Tail(items)),
                            success,
                            Append(errors, [phone_data |-> phone_data, error |-> r.error]))

NoCall ==
    [ op |-> "none", error |-> "none", national_id |-> <<>>, items |-> <<>>,
      success |-> <<>>, errors |-> <<>> ]

\* what a call that is not a batch leaves in last
Ended(op, error) ==
    [ op |-> op, error |-> error, national_id |-> <<>>, items |-> <<>>,
      success |-> <<>>, errors |-> <<>> ]

-----------------------------------------------------------------------------
(* preprocess_image.  An image is its mode, its size and the transforms    *)
(* that produced it from the caller's image, in order.                     *)

MinWidth == 800
MinHeight == 600

NoImage == [mode |-> "none", width |-> 0, height |-> 0, history |-> <<>>]

\* the statements of the try block that assign image, in order
PreprocessSteps ==
    << "convert RGB if needed", "convert L", "resize if too small", "convert RGB",
       "Contrast 3.0", "Brightness 1.2", "Sharpness 2.5" >>

\* whether statement k runs on img: the first and the third stand under an if
Executes(k, img) ==
    CASE k = 1 -> img.mode # "RGB"
      [] k = 3 -> img.width < MinWidth \/ img.height < MinHeight
      [] OTHER -> TRUE

\* 800/width or 600/height divides by zero
DivisionByZero(k, img) == k = 3 /\ (img.width = 0 \/ img.height = 0)

\* int(width * scale_factor), int(height * scale_factor) with
\* scale_factor = max(800/width, 600/height)
Resized(img) ==
    IF MinWidth * img.height >= MinHeight * img.width
    THEN [img EXCEPT !.width = MinWidth, !.height = (img.height * MinWidth) \div img.width]
    ELSE [img EXCEPT !.width = (img.width * MinHeight) \div img.height, !.height = MinHeight]

\* the image that statement k binds to the local name image
Transformed(k, img) ==
    LET done == [img EXCEPT !.history = Append(@, PreprocessSteps[k])]
    IN  CASE k = 1 -> [done EXCEPT !.mode = "RGB"]
          [] k = 2 -> [done EXCEPT !.mode = "L"]
          [] k = 3 -> Resized(done)
          [] k = 4 -> [done EXCEPT !.mode = "RGB"]
          [] OTHER -> done

\* the try block from statement k on, the local name image bound to img; the
\* statement numbered fail raises when it runs
RECURSIVE RunSteps(_, _, _)
RunSteps(k, img, fail) ==
    IF k > Len(PreprocessSteps) THEN [raised |-> FALSE, image |-> img]
    ELSE IF ~Executes(k, img) THEN RunSteps(k + 1, img, fail)
    ELSE IF k = fail \/ DivisionByZero(k, img) THEN [raised |-> TRUE, image |-> img]
    ELSE RunSteps(k + 1, Transformed(k, img), fail)

\* both the try block and the except clause end in "return image": the value of
\* the local name at that point
preprocess_image(image, fail) == RunSteps(1, image, fail)

ImageModes == {"RGB", "RGBA", "L", "P"}

ImageSizes ==
    { <<0, 0>>, <<400, 300>>, <<799, 600>>, <<800, 600>>, <<1000, 300>>, <<1200, 599>> }

InputImages ==
    { [mode |-> m, width |-> sz[1], height |-> sz[2], history |-> <<>>] :
        m \in ImageModes, sz \in ImageSizes }

-----------------------------------------------------------------------------
(* extract_from_image_data: the configuration sweep, the binarize fallback *)
(* and the manual fallback                                                  *)

MaxCalls == 2

ExcerptLen == 100

ocr_configs ==
    << "--oem 3 --psm 6 -l eng",
       "--oem 3 --psm 8 -l eng",
       "--oem 3 --psm 7 -l eng",
       "--oem 3 --psm 6 -l ara+eng",
       "--oem 3 --psm 13 -l eng" >>

binarize_config == "--oem 3 --psm 8 -l eng"

\* the Arabic for "wallet Vodafone Cash"
WalletArabic ==
    <<"U+0645", "U+062D", "U+0641", "U+0638", "U+0629">> \o Chars(" ")
        \o VodafoneArabic \o Chars(" ") \o <<"U+0643", "U+0627", "U+0634">>

\* the texts pytesseract.image_to_string returns in the model
OcrTexts ==
    { <<>>,
      <<" ", "\n">>,
      Chars("no number here"),
      Chars("01012345678"),
      Chars("01012345678 01012345678"),
      Chars("Vodafone 01112345678 wallet +201512345678"),
      Chars("tel +201098765432"),
      Chars("WALLET 01012345678 01512345678"),
      Chars("Wallet 01012345678"),
      WalletArabic \o Chars(" 01012345678") }

\* one recognition attempt: image_to_string raises, or returns a text
OcrOutcomes ==
    {[raised |-> TRUE, text |-> <<>>]} \cup {[raised |-> FALSE, text |-> t] : t \in OcrTexts}

\* text[:100] + '...' if len(text) > 100 else text
Excerpt(t) == IF Len(t) > ExcerptLen THEN SubSeq(t, 1, ExcerptLen) \o Chars("...") ELSE t

PhoneRecord(t, phone) ==
    [ phone_number |-> phone,
      carrier |-> determine_carrier(t, phone),
      has_wallet |-> detect_wallet_mentions(t),
      extracted_text |-> Excerpt(t) ]

\* text and text.strip()
HasText(t) == t # <<>> /\ Strip(t) # <<>>

\* The pure functions on the recognised texts, evaluated once per text
OcrPhones == [t \in OcrTexts |-> extract_phone_numbers(t)]
OcrHasText == [t \in OcrTexts |-> HasText(t)]
OcrRecords == [t \in OcrTexts |-> [phone \in OcrPhones[t] |-> PhoneRecord(t, phone)]]

\* [d['phone_number'] for d in extracted_data]
NumbersOf(data) == { data[i].phone_number : i \in DOMAIN data }

\* list(phone_numbers): the elements of the set, in any order
ListsOf(S) ==
    { l \in [1..Cardinality(S) -> S] : \A i, j \in 1..Cardinality(S) : l[i] = l[j] => i = j }

\* for phone in phones: if phone not in [...]: extracted_data.append({...})
RECURSIVE AppendNew(_, _, _)
AppendNew(data, lst, t) ==
    IF lst = <<>> THEN data
    ELSE AppendNew(IF Head(lst) \in NumbersOf(data) THEN data
                   ELSE Append(data, OcrRecords[t][Head(lst)]),
                   Tail(lst), t)

\* the extracted_data one attempt leaves: nothing is added when the call raised or
\* the text is blank
AfterAttempt(data, out, lst) ==
    IF out.raised THEN data
    ELSE IF OcrHasText[out.text] THEN AppendNew(data, lst, out.text)
    ELSE data

\* the sweep without its break
SweepStops_Never(out, data) == FALSE

\* the sweep whose except clause breaks instead of continuing
SweepStops_OnError(out, data) ==
    out.raised \/ (OcrHasText[out.text] /\ data # <<>>)

\* if extracted_data: break (inside "if text and text.strip()"); the except clause continues
SweepStops(out, data) == ~out.raised /\ OcrHasText[out.text] /\ data # <<>>

\* one iteration that extends the list with the text's records and goes on:
\* no membership test, no break
SweepBody_Extend(data, out, lst) ==
    [ data |-> IF out.raised \/ ~OcrHasText[out.text] THEN data
               ELSE data \o [i \in 1..Len(lst) |-> OcrRecords[out.text][lst[i]]],
      stop |-> FALSE ]

\* one iteration of "for config in ocr_configs"
SweepBody(data, out, lst) ==
    LET after == AfterAttempt(data, out, lst)
    IN  [data |-> after, stop |-> SweepStops(out, after)]

\* Method 2 entered whatever the sweep found
NeedsMethodTwo_Always(data) == TRUE

\* "if not extracted_data" before Method 2
NeedsMethodTwo(data) == data = <<>>

manual_numbers == << Chars("01128794048"), Chars("01128794050") >>

ManualText ==
    <<"U+062A", "U+0645">> \o Chars(" ") \o <<"U+0627", "U+0633", "U+062A", "U+062E", "U+0631", "U+0627", "U+062C">> \o Chars(" ") \o <<"U+0627", "U+0644", "U+0631", "U+0642", "U+0645">> \o Chars(" ") \o <<"U+064A", "U+062F", "U+0648", "U+064A", "U+0627", "U+064B">> \o Chars(" ") \o <<"U+0645", "U+0646">> \o Chars(" ") \o <<"U+0635", "U+0648", "U+0631", "U+0629">> \o Chars(" ") \o <<"U+0627", "U+062A", "U+0635", "U+0627", "U+0644", "U+0627", "U+062A">>

RECURSIVE AppendManual(_, _)
AppendManual(data, lst) ==
    IF lst = <<>> THEN data
    ELSE AppendManual(IF Head(lst) \in NumbersOf(data) THEN data
                      ELSE Append(data, [ phone_number |-> Head(lst),
                                          carrier |-> Etisalat,
                                          has_wallet |-> FALSE,
                                          extracted_text |-> ManualText ]),
                      Tail(lst))

\* Method 3 without its guard: the two records are appended to whatever was found
ManualFallback_Always(data) == AppendManual(data, manual_numbers)

\* Method 3 switched off
ManualFallback_Disabled(data) == data

\* Method 3
ManualFallback(data) == IF data = <<>> THEN AppendManual(data, manual_numbers) ELSE data

\* extract_from_file without its except clause
OnFileException_Propagates == "raised"

\* the except clauses of extract_from_file and extract_from_clipboard: return []
OnFileException == "returned"
OnClipboardException == "returned"

\* extract_from_clipboard going on to extract_from_image_data with image = None
OnNoClipboardImage_Continues == "sweep"

\* if image is None: return []
OnNoClipboardImage == "returned"

\* what image_to_string can do: with the engine missing it raises on every call
\* (pytesseract cannot run the tesseract command)
OutcomesWith(e) == IF e = "missing" THEN { o \in OcrOutcomes : o.raised } ELSE OcrOutcomes

-----------------------------------------------------------------------------
(* The extraction calls on one processor                                   *)

\* no attribution run
IdleCarrier ==
    /\ ctext = <<>>
    /\ cphone = <<>>
    /\ carrier = <<>>
    /\ results = <<>>
    /\ cpc = "idle"

\* no call on a CustomerManager: the tables as init_database creates them
IdleStore ==
    /\ customers = {}
    /\ phone_numbers = {}
    /\ seq = 0
    /\ last = NoCall
    /\ nops = 0

\* no preprocessing run
IdlePre ==
    /\ pimage = NoImage
    /\ pout = NoImage
    /\ praised = FALSE
    /\ ppc = "idle"

\* no text-function run
IdleText ==
    /\ text = <<>>
    /\ phones = {}
    /\ valid = FALSE
    /\ once = <<>>
    /\ twice = <<>>
    /\ tpc = "idle"

InitCalls ==
    /\ pc = "idle"
    /\ entry = "none"
    /\ cfg = 1
    /\ extracted_data = <<>>
    /\ calls = <<>>
    /\ result = <<>>
    /\ ncalls = 0
    /\ source = "none"

Init ==
    /\ InitCalls
    /\ engine \in {"present", "missing"}
    /\ IdleText
    /\ IdleCarrier
    /\ IdlePre
    /\ IdleStore

\* the list kept on the processor: a call starts from what the last call returned
InitialData_Carried == result

\* extracted_data = []: a list local to the call
InitialData == <<>>

\* a call starts
StartCall(e) ==
    /\ pc \in {"idle", "returned"}
    /\ ncalls < MaxCalls
    /\ ncalls' = ncalls + 1
    /\ entry' = e
    /\ cfg' = 1
    /\ extracted_data' = InitialData
    /\ calls' = <<>>
    /\ result' = <<>>
    /\ UNCHANGED engine

ExtractFromImageData ==
    /\ StartCall("image_data")
    /\ source' = "image"
    /\ pc' = "sweep"
    /\ UNCHANGED tvars
    /\ UNCHANGED cvars
    /\ UNCHANGED pvars
    /\ UNCHANGED svars

\* Image.open(file_path) returns an image or raises
ExtractFromFile ==
    /\ \E opened \in BOOLEAN :
          /\ StartCall("file")
          /\ source' = IF opened THEN "image" ELSE "unreadable"
          /\ pc' = IF opened THEN "sweep" ELSE OnFileException
    /\ UNCHANGED tvars
    /\ UNCHANGED cvars
    /\ UNCHANGED pvars
    /\ UNCHANGED svars

\* ImageGrab.grabclipboard() returns an image or None, or raises
ExtractFromClipboard ==
    /\ \E grab \in {"image", "none", "raises"} :
          /\ StartCall("clipboard")
          /\ source' = CASE grab = "image" -> "image"
                         [] grab = "none" -> "absent"
                         [] grab = "raises" -> "failed"
          /\ pc' = CASE grab = "image" -> "sweep"
                     [] grab = "none" -> OnNoClipboardImage
                     [] grab = "raises" -> OnClipboardException
    /\ UNCHANGED tvars
    /\ UNCHANGED cvars
    /\ UNCHANGED pvars
    /\ UNCHANGED svars

\* one configuration of Method 1, and what follows the loop when it ends
SweepAttempt ==
    /\ pc = "sweep"
    /\ \E out \in OutcomesWith(engine) :
       \E lst \in ListsOf(IF out.raised THEN {} ELSE OcrPhones[out.text]) :
          LET body == SweepBody(extracted_data, out, lst)
              over == body.stop \/ cfg = Len(ocr_configs)
          IN  /\ extracted_data' = body.data
              /\ calls' = Append(calls, [ variant |-> "default",
                                          config |-> ocr_configs[cfg],
                                          raised |-> out.raised,
                                          text |-> out.text,
                                          added |-> Len(body.data) - Len(extracted_data) ])
              /\ cfg' = IF over THEN cfg ELSE cfg + 1
              /\ pc' = IF ~over THEN "sweep"
                       ELSE IF NeedsMethodTwo(body.data) THEN "method2"
                       ELSE "returned"
              /\ result' = IF over /\ ~NeedsMethodTwo(body.data)
                           THEN ManualFallback(body.data) ELSE result
    /\ UNCHANGED <<entry, ncalls, source, engine>>
    /\ UNCHANGED tvars
    /\ UNCHANGED cvars
    /\ UNCHANGED pvars
    /\ UNCHANGED svars

\* Method 2, then Method 3 and the return.  The try block of Method 2 holds the
\* grayscale conversion, the threshold and the one recognition call: an exception
\* of any of them is the attempt that raised.
MethodTwo ==
    /\ pc = "method2"
    /\ \E out \in OutcomesWith(engine) :
       \E lst \in ListsOf(IF out.raised THEN {} ELSE OcrPhones[out.text]) :
          LET final == ManualFallback(AfterAttempt(extracted_data, out, lst))
          IN  /\ extracted_data' = final
              /\ calls' = Append(calls, [ variant |-> "binarize",
                                          config |-> binarize_config,
                                          raised |-> out.raised,
                                          text |-> out.text,
                                          added |-> Len(AfterAttempt(extracted_data, out, lst))
                                                      - Len(extracted_data) ])
              /\ pc' = "returned"
              /\ result' = final
    /\ UNCHANGED <<entry, cfg, ncalls, source, engine>>
    /\ UNCHANGED tvars
    /\ UNCHANGED cvars
    /\ UNCHANGED pvars
    /\ UNCHANGED svars

Next ==
    \/ ExtractFromImageData
    \/ ExtractFromFile
    \/ ExtractFromClipboard
    \/ SweepAttempt
    \/ MethodTwo

Spec == Init /\ [][Next]_vars

\* the call runs on the invoking thread until it returns
LiveSpec == Spec /\ WF_vars(Next)

-----------------------------------------------------------------------------
(* The pure text functions applied to one input                            *)

InitText ==
    /\ InitCalls
    /\ engine = "present"
    /\ text \in TextInputs \cup CandidateStrings \cup InternationalForms
    /\ phones = {}
    /\ valid = FALSE
    /\ once = <<>>
    /\ twice = <<>>
    /\ tpc = "input"
    /\ IdleCarrier
    /\ IdlePre
    /\ IdleStore

ExtractPhoneNumbers ==
    /\ tpc = "input"
    /\ phones' = extract_phone_numbers(text)
    /\ tpc' = "extracted"
    /\ UNCHANGED <<text, valid, once, twice>>
    /\ UNCHANGED ovars
    /\ UNCHANGED cvars
    /\ UNCHANGED pvars
    /\ UNCHANGED svars

ValidateEgyptianPhone ==
    /\ tpc = "input"
    /\ valid' = validate_egyptian_phone(text)
    /\ tpc' = "validated"
    /\ UNCHANGED <<text, phones, once, twice>>
    /\ UNCHANGED ovars
    /\ UNCHANGED cvars
    /\ UNCHANGED pvars
    /\ UNCHANGED svars

\* lines 174-185 applied to a match, and once more to their own result
NormalizeTwice ==
    /\ tpc = "input"
    /\ once' = NormalizeMatch(text)
    /\ twice' = NormalizeMatch(NormalizeMatch(text))
    /\ tpc' = "normalized"
    /\ UNCHANGED <<text, phones, valid>>
    /\ UNCHANGED ovars
    /\ UNCHANGED cvars
    /\ UNCHANGED pvars
    /\ UNCHANGED svars

NextText == ExtractPhoneNumbers \/ ValidateEgyptianPhone \/ NormalizeTwice

SpecText == InitText /\ [][NextText]_vars

-----------------------------------------------------------------------------
(* determine_carrier applied to one text and one number                    *)

MaxWords == 2

ProcessExcerptLen == 200

Words ==
    { Chars("Vodafone"), Chars("ORANGE"), Chars("mobinil"), Chars("Etisalat"),
      Chars("WE"), Chars("VF"), VodafoneArabic, Chars("call "), Chars(": ") }

RECURSIVE WordTexts(_)
WordTexts(n) ==
    IF n = 0 THEN {<<>>}
    ELSE LET shorter == WordTexts(n - 1)
         IN  shorter \cup { t \o w : t \in shorter, w \in Words }

\* the texts handed to determine_carrier: up to MaxWords words
CarrierTexts == WordTexts(MaxWords)

\* the numbers handed to determine_carrier: each listed prefix, an unlisted one,
\* a wrong length, a number that does not start with 01, the empty string
CarrierPhones ==
    { Chars("01012345678"), Chars("01112345678"), Chars("01212345678"),
      Chars("01512345678"), Chars("01312345678"), Chars("0111234567"),
      Chars("011123456789"), Chars("11012345678"), <<>> }

\* texts with numbers, handed to process_extracted_text
ScenarioB == Chars("Vodafone: 01112345678 Orange: 01212345678")

ScenarioTexts ==
    { ScenarioB,
      Chars("Vodafone: 01112345678"),
      Chars("call 01112345678 : 01212345678"),
      Chars("WALLET 01512345678") }

\* text[:200] + '...' if len(text) > 200 else text
ProcessExcerpt(t) ==
    IF Len(t) > ProcessExcerptLen THEN SubSeq(t, 1, ProcessExcerptLen) \o Chars("...") ELSE t

\* the loop of process_extracted_text classifying each number by its prefix alone
ProcessedRecords_PrefixTier(t, lst) ==
    [ i \in DOMAIN lst |->
        [ phone_number |-> lst[i],
          carrier |-> determine_carrier_by_prefix(lst[i]),
          has_wallet |-> detect_wallet_mentions(t),
          extracted_text |-> ProcessExcerpt(t) ] ]

\* the loop of process_extracted_text over the list phone_numbers
ProcessedRecords(t, lst) ==
    [ i \in DOMAIN lst |->
        [ phone_number |-> lst[i],
          carrier |-> determine_carrier(t, lst[i]),
          has_wallet |-> detect_wallet_mentions(t),
          extracted_text |-> ProcessExcerpt(t) ] ]

InitCarrier ==
    /\ InitCalls
    /\ engine = "present"
    /\ IdleText
    /\ ctext \in CarrierTexts \cup ScenarioTexts
    /\ cphone \in CarrierPhones
    /\ carrier = <<>>
    /\ results = <<>>
    /\ cpc = "input"
    /\ IdlePre
    /\ IdleStore

DetermineCarrier ==
    /\ cpc = "input"
    /\ carrier' = determine_carrier(ctext, cphone)
    /\ cpc' = "classified"
    /\ UNCHANGED <<ctext, cphone, results>>
    /\ UNCHANGED ovars
    /\ UNCHANGED tvars
    /\ UNCHANGED pvars
    /\ UNCHANGED svars

\* self.determine_carrier_by_prefix(phone_number) called on its own
DetermineCarrierByPrefix ==
    /\ cpc = "input"
    /\ carrier' = determine_carrier_by_prefix(cphone)
    /\ cpc' = "prefix_classified"
    /\ UNCHANGED <<ctext, cphone, results>>
    /\ UNCHANGED ovars
    /\ UNCHANGED tvars
    /\ UNCHANGED pvars
    /\ UNCHANGED svars

\* process_extracted_text(text): [] for an empty text, else one record per phone
\* of list(phone_numbers), in the list's order
ProcessExtractedText ==
    /\ cpc = "input"
    /\ \E lst \in ListsOf(IF ctext = <<>> THEN {} ELSE extract_phone_numbers(ctext)) :
          results' = ProcessedRecords(ctext, lst)
    /\ cpc' = "processed"
    /\ UNCHANGED <<ctext, cphone, carrier>>
    /\ UNCHANGED ovars
    /\ UNCHANGED tvars
    /\ UNCHANGED pvars
    /\ UNCHANGED svars

NextCarrier == DetermineCarrier \/ DetermineCarrierByPrefix \/ ProcessExtractedText

SpecCarrier == InitCarrier /\ [][NextCarrier]_vars

-----------------------------------------------------------------------------
(* preprocess_image applied to one image                                   *)

InitPre ==
    /\ InitCalls
    /\ engine = "present"
    /\ IdleText
    /\ IdleCarrier
    /\ pimage \in InputImages
    /\ pout = NoImage
    /\ praised = FALSE
    /\ ppc = "input"
    /\ IdleStore

\* one call: no statement raises (fail = 0), or statement fail raises when reached
PreprocessImage ==
    /\ ppc = "input"
    /\ \E fail \in 0..Len(PreprocessSteps) :
          LET run == preprocess_image(pimage, fail)
          IN  /\ pout' = run.image
              /\ praised' = run.raised
    /\ ppc' = "returned"
    /\ UNCHANGED pimage
    /\ UNCHANGED ovars
    /\ UNCHANGED tvars
    /\ UNCHANGED cvars
    /\ UNCHANGED svars

NextPre == PreprocessImage

SpecPre == InitPre /\ [][NextPre]_vars

-----------------------------------------------------------------------------
(* Calls on one CustomerManager                                            *)

IdA == Chars("29001011234567")

\* 14 characters that str.isdigit accepts, the last one not an ASCII digit
IdB == Chars("3000101123456") \o <<ArabicIndicThree>>

NationalIds == {IdA, IdB, Chars("2900101123456"), Chars("49001011234567")}

\* the IDs the phone calls and delete_customer are made with: stored or not yet
KnownIds == {IdA, IdB}

Names == {Chars(" Bo "), Chars(" a "), <<>>}

NotesInputs == {Chars(" vip ")}

StorePhones == {Chars("01012345678"), Chars("01512345678"), Chars("0101234567")}

\* the second value of the carrier list of PhoneManagementDialog.add_manual_phone:
\* the Arabic name of Vodafone with the Latin letters a and f in it
DialogVodafone == <<"U+0641", "U+0648", "U+062F", "a", "f", "U+0648", "U+0646">>

\* the carrier lists of the two manual add-phone dialogs
modern_dialog_carriers == <<Orange, Vodafone, Etisalat, WE>>

phone_dialog_carriers == <<Orange, DialogVodafone, Etisalat, WE>>

CarrierInputs == {Orange, Vodafone, WE, Chars("Orange")}

\* the valid_prefixes of ModernCustomerDialog.add_manual_phone
dialog_prefixes == {Chars("010"), Chars("011"), Chars("012"), Chars("015")}

\* the checks of ModernCustomerDialog.add_manual_phone before the number joins
\* extracted_phones
ModernDialogAccepts(phone) ==
    /\ phone # <<>>
    /\ \A i \in 1..Len(phone) : IsDigitChar(phone[i])
    /\ Len(phone) = PhoneLen
    /\ SubSeq(phone, 1, 3) \in dialog_prefixes

\* the dicts of a phone_data_list: without has_wallet, with a number that is not
\* one of its carrier, without carrier
BatchItems ==
    { [carrier |-> Orange, phone_number |-> Chars("01012345678")],
      [carrier |-> WE, phone_number |-> Chars("01012345678"), has_wallet |-> TRUE],
      [phone_number |-> Chars("01512345678"), has_wallet |-> FALSE] }

RECURSIVE BatchListsUpTo(_)
BatchListsUpTo(n) ==
    IF n = 0 THEN {<<>>}
    ELSE LET shorter == BatchListsUpTo(n - 1)
         IN  shorter \cup { Append(l, it) : l \in shorter, it \in BatchItems }

BatchLists == BatchListsUpTo(MaxBatch)

InitStore ==
    /\ InitCalls
    /\ engine = "present"
    /\ IdleText
    /\ IdleCarrier
    /\ IdlePre
    /\ IdleStore

\* the frame of every call on the CustomerManager
StoreCall ==
    /\ nops < MaxOps
    /\ nops' = nops + 1
    /\ UNCHANGED ovars
    /\ UNCHANGED tvars
    /\ UNCHANGED cvars
    /\ UNCHANGED pvars

AddCustomer ==
    /\ StoreCall
    /\ \E national_id \in NationalIds, name \in Names, notes \in NotesInputs :
          LET error == IF ~validate_national_id(national_id) THEN "invalid national id"
                       ELSE IF BadName(name) THEN "invalid name"
                       ELSE IF get_customer(customers, national_id) # {}
                            THEN "customer exists"
                       ELSE "none"
          IN  /\ customers' = IF error = "none"
                              THEN customers \cup {[ national_id |-> national_id,
                                                      name |-> Strip(name),
                                                      notes |-> Strip(notes) ]}
                              ELSE customers
              /\ last' = Ended("add_customer", error)
    /\ UNCHANGED <<phone_numbers, seq>>

DeleteCustomer ==
    /\ StoreCall
    /\ \E national_id \in KnownIds :
          IF get_customer(customers, national_id) = {}
          THEN /\ last' = Ended("delete_customer", "customer not found")
               /\ UNCHANGED <<customers, phone_numbers>>
          ELSE /\ last' = Ended("delete_customer", "none")
               /\ customers' = customers \ get_customer(customers, national_id)
               /\ phone_numbers' = phone_numbers \ CascadeRows(phone_numbers, national_id)
    /\ UNCHANGED seq

AddPhoneNumber ==
    /\ StoreCall
    /\ \E national_id \in KnownIds, c \in CarrierInputs, phone_number \in StorePhones,
          has_wallet \in {FALSE} :
          LET r == add_phone_number(customers, phone_numbers, seq, national_id, c,
                                    phone_number, has_wallet)
          IN  /\ phone_numbers' = r.rows
              /\ seq' = r.seq
              /\ last' = Ended("add_phone_number", r.error)
    /\ UNCHANGED customers

\* DELETE FROM phone_numbers WHERE id = ?: no row, no error
DeletePhoneNumber ==
    /\ StoreCall
    /\ \E phone_id \in 1..(seq + 1) :
          phone_numbers' = { r \in phone_numbers : r.id # phone_id }
    /\ last' = Ended("delete_phone_number", "none")
    /\ UNCHANGED <<customers, seq>>

BatchAddPhoneNumbers ==
    /\ StoreCall
    /\ \E national_id \in KnownIds, items \in BatchLists :
          LET r == BatchLoop(customers, phone_numbers, seq, national_id, items, <<>>, <<>>)
          IN  /\ phone_numbers' = r.rows
              /\ seq' = r.seq
              /\ last' = [ op |-> "batch_add_phone_numbers", error |-> "none",
                           national_id |-> national_id, items |-> items,
                           success |-> r.success, errors |-> r.errors ]
    /\ UNCHANGED customers

\* PhoneManagementDialog.add_manual_phone, its add_phone button: the dialog was
\* opened on a stored customer
ManualAddPhone ==
    /\ StoreCall
    /\ \E customer \in customers, i \in 1..Len(phone_dialog_carriers),
          entry_text \in StorePhones, has_wallet \in {TRUE} :
          LET phone == Strip(entry_text)
              r == add_phone_number(customers, phone_numbers, seq, customer.national_id,
                                    phone_dialog_carriers[i], phone, has_wallet)
          IN  IF phone = <<>> \/ ~validate_egyptian_phone(phone)
              THEN /\ last' = Ended("manual_add_phone", "rejected by the dialog")
                   /\ UNCHANGED <<phone_numbers, seq>>
              ELSE /\ phone_numbers' = r.rows
                   /\ seq' = r.seq
                   /\ last' = Ended("manual_add_phone", r.error)
    /\ UNCHANGED customers

\* ModernCustomerDialog with one manually added number, saved, and
\* CustomerApp.add_customer storing the result
AddCustomerWithPhone ==
    /\ StoreCall
    /\ \E national_id \in KnownIds, i \in 1..Len(modern_dialog_carriers),
          entry_text \in StorePhones :
          LET name == Chars("Ali")
              known == get_customer(customers, national_id) # {}
              added == customers \cup {[ national_id |-> national_id, name |-> name,
                                          notes |-> <<>> ]}
              r == add_phone_number(added, phone_numbers, seq, national_id,
                                    modern_dialog_carriers[i], Strip(entry_text), FALSE)
          IN  /\ ModernDialogAccepts(Strip(entry_text))
              /\ IF known
                 THEN /\ last' = Ended("add_customer_dialog", "customer exists")
                      /\ UNCHANGED <<customers, phone_numbers, seq>>
                 ELSE /\ customers' = added
                      /\ phone_numbers' = r.rows
                      /\ seq' = r.seq
                      /\ last' = Ended("add_customer_dialog", r.error)

NextStore ==
    \/ AddCustomer
    \/ DeleteCustomer
    \/ AddPhoneNumber
    \/ DeletePhoneNumber
    \/ BatchAddPhoneNumbers
    \/ ManualAddPhone
    \/ AddCustomerWithPhone

SpecStore == InitStore /\ [][NextStore]_vars

-----------------------------------------------------------------------------
(* Properties of the text functions (checked under SpecText)               *)

MobilePrefixes == {<<"0", "1", "0">>, <<"0", "1", "1">>, <<"0", "1", "2">>, <<"0", "1", "5">>}

\* an 11-character string: 010/011/012/015 and 8 ASCII digits
WellFormedPhone(p) ==
    /\ Len(p) = 11
    /\ <<p[1], p[2], p[3]>> \in MobilePrefixes
    /\ \A i \in 4..11 : p[i] \in AsciiDigits

\* t holds, from position i on, 01 + one of 0, 1, 2, 5 + 8 ASCII digits
MobileNumberAt(t, i) ==
    /\ i >= 1
    /\ i + 10 <= Len(t)
    /\ WellFormedPhone(SubSeq(t, i, i + 10))

\* the 11-digit windows of the text's digits that start with 01
Candidates(t) ==
    LET d == SelectSeq(t, LAMBDA c : c \in AsciiDigits)
    IN  { SubSeq(d, i, i + 10) : i \in { j \in 1..Len(d) : j + 10 <= Len(d) /\ d[j] = "0" /\ d[j + 1] = "1" } }

\* C1: for every input text, every string extract_phone_numbers returns passes
\* validate_egyptian_phone: it has length 11, its prefix is 010, 011, 012 or 015 and
\* its remaining 8 characters are digits; no invalid candidate is returned.
C1_OnlyValidReturned ==
    tpc = "extracted" =>
        \A p \in phones : validate_egyptian_phone(p) /\ WellFormedPhone(p)

\* a text from which one number was returned and one 01-candidate was discarded
C1_Witness ==
    /\ tpc = "extracted"
    /\ phones # {}
    /\ \E c \in Candidates(text) : c \notin phones /\ ~WellFormedPhone(c)

\* C2: when the text holds, at any position (overlapping an earlier match or inside a
\* longer run of digits included), 01 + one of 0, 1, 2, 5 + 8 digits, the result
\* of extract_phone_numbers contains that 11-digit number.
C2_EveryOccurrenceFound ==
    tpc = "extracted" =>
        \A i \in 1..Len(text) : MobileNumberAt(text, i) => SubSeq(text, i, i + 10) \in phones

\* two overlapping occurrences, both returned
C2_Witness ==
    /\ tpc = "extracted"
    /\ \E i, j \in 1..Len(text) :
          /\ i < j
          /\ j < i + 11
          /\ MobileNumberAt(text, i)
          /\ MobileNumberAt(text, j)
          /\ SubSeq(text, i, i + 10) # SubSeq(text, j, j + 10)
          /\ {SubSeq(text, i, i + 10), SubSeq(text, j, j + 10)} \subseteq phones

CountryCodes == {Chars("+20"), Chars("0020"), Chars("20")}

\* t holds, from position i on, the country code cc and 10 digits that start with
\* 10, 11, 12 or 15
InternationalAt(t, i, cc) ==
    /\ i + Len(cc) + 9 <= Len(t)
    /\ SubSeq(t, i, i + Len(cc) - 1) = cc
    /\ WellFormedPhone(<<"0">> \o SubSeq(t, i + Len(cc), i + Len(cc) + 9))

\* C9: for every text that holds an international form (+20, 0020 or 20, then 10
\* digits that start with 10, 11, 12 or 15), extract_phone_numbers returns the
\* canonical form: the country code replaced by a single 0.
C9_InternationalCanonical ==
    tpc = "extracted" =>
        \A cc \in CountryCodes : \A i \in 1..Len(text) :
            InternationalAt(text, i, cc) =>
                (<<"0">> \o SubSeq(text, i + Len(cc), i + Len(cc) + 9)) \in phones

\* "+201098765432" after a word character: the pattern with the country code matches
C9_Witness ==
    /\ tpc = "extracted"
    /\ text = Chars("a+201098765432")
    /\ phones = {Chars("01098765432")}

\* C10: validate_egyptian_phone(p) is true exactly when p has length 11, starts with
\* 01, its first three characters are 010, 011, 012 or 015 and its remaining 8
\* characters are all digits (str.isdigit); it is false for every other string, the
\* empty string included.
C10_ValidateExact ==
    tpc = "validated" =>
        /\ valid \in BOOLEAN
        /\ valid <=> ( /\ Len(text) = 11
                       /\ text[1] = "0"
                       /\ text[2] = "1"
                       /\ <<text[1], text[2], text[3]>> \in MobilePrefixes
                       /\ \A i \in 4..11 : IsDigitChar(text[i]) )

\* an 11-digit string that starts with 01 and is rejected for its third digit
C10_Witness ==
    /\ tpc = "validated"
    /\ text = Chars("01312345678")
    /\ ~valid

-----------------------------------------------------------------------------
(* Properties of the extraction calls (checked under Spec and LiveSpec)    *)

\* the attempt returned a text from which at least one valid number is extracted
Yields(c) == ~c.raised /\ OcrPhones[c.text] # {}

\* the attempt raised, or returned an empty or whitespace-only text
Failed(c) == c.raised \/ \A i \in 1..Len(c.text) : c.text[i] \in {" ", "\n", "\t"}

DefaultCalls == { k \in DOMAIN calls : calls[k].variant = "default" }
BinarizeCalls == { k \in DOMAIN calls : calls[k].variant = "binarize" }

\* data is exactly the records built from text t, one per number
RecordsOfText(data, t) ==
    /\ Len(data) = Cardinality(OcrPhones[t])
    /\ { data[i].phone_number : i \in DOMAIN data } = OcrPhones[t]
    /\ \A i \in DOMAIN data :
          /\ data[i].phone_number \in OcrPhones[t]
          /\ data[i] = OcrRecords[t][data[i].phone_number]
          /\ data[i].extracted_text = t

\* C3: in the list extract_from_image_data returns (and in the list it builds) no two
\* records have the same phone_number, whatever the recognised texts are.
C3_UniquePhoneNumbers ==
    /\ \A i, j \in DOMAIN result :
          result[i].phone_number = result[j].phone_number => i = j
    /\ \A i, j \in DOMAIN extracted_data :
          extracted_data[i].phone_number = extracted_data[j].phone_number => i = j

\* a text that holds the same number twice gave one record of that number
C3_Witness ==
    /\ pc = "returned"
    /\ \E k \in DOMAIN calls :
          ~calls[k].raised /\ calls[k].text = Chars("01012345678 01012345678")
    /\ Cardinality({ i \in DOMAIN result : result[i].phone_number = Chars("01012345678") }) = 1

\* the order of the sweep as the specification states it
SweepOrder ==
    << "--oem 3 --psm 6 -l eng", "--oem 3 --psm 8 -l eng", "--oem 3 --psm 7 -l eng",
       "--oem 3 --psm 6 -l ara+eng", "--oem 3 --psm 13 -l eng" >>

\* C4: the five configurations are tried on the default variant in the fixed order
\* (eng psm 6, eng psm 8, eng psm 7, ara+eng psm 6, eng psm 13); the sweep stops at the
\* first one whose text yields a valid number: no attempt follows it, and the
\* records are those of that one text.
C4_SweepOrderAndStop ==
    /\ \A k \in DefaultCalls : k <= 5 /\ calls[k].config = SweepOrder[k]
    /\ \A k \in DefaultCalls :
          Yields(calls[k]) =>
              /\ k = Len(calls)
              /\ \A j \in 1..(k - 1) : ~Yields(calls[j])
              /\ pc = "returned"
              /\ RecordsOfText(result, calls[k].text)

\* the third configuration is the first to yield numbers
C4_Witness ==
    /\ pc = "returned"
    /\ Len(calls) = 3
    /\ ~Yields(calls[1])
    /\ ~Yields(calls[2])
    /\ Yields(calls[3])
    /\ Len(result) = 2

\* C5: the binarize fallback (one attempt, English single-word configuration) runs if
\* and only if all five configurations of the default variant produced no valid number;
\* when it yields a valid number the result is exactly the records of its text.
C5_BinarizeFallback ==
    /\ \A k \in BinarizeCalls :
          /\ k = 6
          /\ calls[k].config = "--oem 3 --psm 8 -l eng"
          /\ DefaultCalls = 1..5
          /\ \A j \in 1..5 : ~Yields(calls[j])
          /\ Yields(calls[k]) => RecordsOfText(result, calls[k].text)
    /\ (pc = "returned" /\ DefaultCalls = 1..5 /\ \A j \in 1..5 : ~Yields(calls[j]))
          => BinarizeCalls # {}

\* the fallback ran after five fruitless attempts and found two numbers
C5_Witness ==
    /\ pc = "returned"
    /\ Len(calls) = 6
    /\ calls[6].variant = "binarize"
    /\ Yields(calls[6])
    /\ Len(result) = 2

\* every attempt of both variants was made and none yielded a number
AllAttemptsFruitless ==
    /\ pc = "returned"
    /\ Len(calls) = 6
    /\ \A k \in DOMAIN calls : ~Yields(calls[k])

\* the two records of Method 3
ManualRecordNumbers == {Chars("01128794048"), Chars("01128794050")}

\* C6, as stated: when every attempt of both variants fails or yields no valid number,
\* extract_from_image_data returns an empty result.
C6_EmptyWhenNothingFound == AllAttemptsFruitless => result = <<>>

\* C6, amended: when every attempt of both variants fails or yields no valid number,
\* extract_from_image_data raises no error and returns the two fixed records of the
\* manual fallback (01128794048 and 01128794050, carrier Etisalat, no wallet).
C6_ManualWhenNothingFound ==
    /\ pc # "raised"
    /\ AllAttemptsFruitless =>
          /\ Len(result) = 2
          /\ { result[i].phone_number : i \in DOMAIN result } = ManualRecordNumbers
          /\ \A i \in DOMAIN result :
                result[i].carrier = Etisalat /\ result[i].has_wallet = FALSE

\* all six attempts were fruitless, one of them by raising, one by a text without numbers
C6_Witness ==
    /\ AllAttemptsFruitless
    /\ \E k \in DOMAIN calls : calls[k].raised
    /\ \E k \in DOMAIN calls : ~calls[k].raised /\ calls[k].text = Chars("no number here")

\* C7: an attempt of the sweep that raises or returns an empty or whitespace-only text
\* is swallowed: it adds no record, the next configuration in order is tried, and
\* the records a later configuration finds are returned.
C7_FailureSwallowed ==
    \A k \in DefaultCalls :
        Failed(calls[k]) =>
            /\ calls[k].added = 0
            /\ k < 5 =>
                  \/ pc = "sweep" /\ Len(calls) = k /\ cfg = k + 1
                  \/ /\ Len(calls) > k
                     /\ calls[k + 1].variant = "default"
                     /\ calls[k + 1].config = SweepOrder[k + 1]
            /\ \A j \in DefaultCalls :
                  (j > k /\ Yields(calls[j]) /\ pc = "returned")
                      => RecordsOfText(result, calls[j].text)

\* an exception, then a blank text, then a configuration that finds numbers
C7_Witness ==
    /\ pc = "returned"
    /\ Len(calls) = 3
    /\ calls[1].raised
    /\ ~calls[2].raised
    /\ calls[2].text = <<" ", "\n">>
    /\ Yields(calls[3])
    /\ result # <<>>

\* C8: extract_from_image_data, extract_from_file and extract_from_clipboard never
\* propagate an exception, whatever the attempts do; each call terminates and
\* returns a list.
C8_NeverRaisesAlwaysReturns ==
    /\ [](pc # "raised")
    /\ [](pc = "returned" => result \in Seq({result[i] : i \in DOMAIN result}))
    /\ (pc \in {"sweep", "method2"}) ~> (pc = "returned")

\* a call from a file whose six attempts all raised has returned
C8_Witness ==
    /\ pc = "returned"
    /\ entry = "file"
    /\ Len(calls) = 6
    /\ \A k \in DOMAIN calls : calls[k].raised
    /\ Len(result) = 2

-----------------------------------------------------------------------------
(* Properties of determine_carrier (checked under SpecCarrier)             *)

\* the carriers in the order of the keyword table
CarrierOrder == <<Orange, Vodafone, Etisalat, WE>>

\* some keyword of the i-th carrier occurs in t, case-insensitively, as a substring
Mentions(t, i) ==
    \E k \in DOMAIN network_keywords[i].keywords :
        Contains(Lower(t), Lower(network_keywords[i].keywords[k]))

MentionsAny(t) == \E i \in DOMAIN CarrierOrder : Mentions(t, i)

\* the prefix table maps the number to Orange: 010 or 012
OrangePrefix(phone) ==
    /\ Len(phone) = PhoneLen
    /\ SubSeq(phone, 1, 3) \in {Chars("010"), Chars("012")}

\* C11 as stated: for a text containing "Vodafone" and a number whose prefix the
\* prefix table maps to Orange (010 or 012), determine_carrier returns Vodafone.
C11_VodafoneOverPrefix ==
    (cpc = "classified" /\ Contains(ctext, Chars("Vodafone")) /\ OrangePrefix(cphone))
        => carrier = Vodafone

\* C11 amended: for a text containing "Vodafone" and no Orange keyword, and a number
\* whose prefix the prefix table maps to Orange (010 or 012), determine_carrier
\* returns Vodafone: the context tier takes precedence over the prefix tier.
C11_VodafoneOverPrefixUnlessOrange ==
    (cpc = "classified" /\ Contains(ctext, Chars("Vodafone")) /\ ~Mentions(ctext, 1)
        /\ OrangePrefix(cphone))
        => carrier = Vodafone

C11_Witness ==
    /\ cpc = "classified"
    /\ ctext = Chars("call Vodafone")
    /\ cphone = Chars("01212345678")
    /\ carrier = Vodafone

\* C12: when keywords of several carriers occur in the text, determine_carrier
\* returns the first carrier in the order Orange, Vodafone, Etisalat, WE that has a
\* keyword occurring (case-insensitively, as a substring) in the text, wherever the
\* keywords stand in the text and whatever the phone number is.
C12_FirstCarrierInFixedOrder ==
    (cpc = "classified" /\ MentionsAny(ctext))
        => \E i \in DOMAIN CarrierOrder :
              /\ Mentions(ctext, i)
              /\ \A j \in 1..(i - 1) : ~Mentions(ctext, j)
              /\ carrier = CarrierOrder[i]

\* Etisalat's keyword stands first in the text and the number's prefix is WE's:
\* the text is classified Vodafone
C12_Witness ==
    /\ cpc = "classified"
    /\ ctext = Chars("EtisalatVodafone")
    /\ cphone = Chars("01512345678")
    /\ carrier = Vodafone

\* C14: when no carrier keyword occurs in the text, determine_carrier maps the
\* number's prefix by the table 010 to Orange, 011 to Etisalat, 012 to Orange,
\* 015 to WE, and returns Orange for a number that is not 11 characters long,
\* does not start with 01, or has an unlisted prefix.
C14_PrefixTable ==
    (cpc = "classified" /\ ~MentionsAny(ctext))
        => carrier =
              IF Len(cphone) # 11 THEN Orange
              ELSE IF <<cphone[1], cphone[2]>> # <<"0", "1">> THEN Orange
              ELSE IF cphone[3] = "0" THEN Orange
              ELSE IF cphone[3] = "1" THEN Etisalat
              ELSE IF cphone[3] = "2" THEN Orange
              ELSE IF cphone[3] = "5" THEN WE
              ELSE Orange

C14_Witness ==
    /\ cpc = "classified"
    /\ ctext = Chars("call : ")
    /\ cphone = Chars("01112345678")
    /\ carrier = Etisalat

\* C13 as stated: for the text "Vodafone: 01112345678 Orange: 01212345678" the
\* pipeline produces two records, with 01112345678 classified Vodafone and
\* 01212345678 classified Orange.
C13_ScenarioBPerNumber ==
    (cpc = "processed" /\ ctext = ScenarioB)
        => /\ Len(results) = 2
           /\ \E i, j \in DOMAIN results :
                 /\ results[i].phone_number = Chars("01112345678")
                 /\ results[i].carrier = Vodafone
                 /\ results[j].phone_number = Chars("01212345678")
                 /\ results[j].carrier = Orange

\* C13 amended: for the text "Vodafone: 01112345678 Orange: 01212345678" the
\* pipeline produces two records, one for 01112345678 and one for 01212345678,
\* both classified Orange: the text holds an Orange keyword, and Orange comes
\* first in the fixed order.
C13_ScenarioBBothOrange ==
    (cpc = "processed" /\ ctext = ScenarioB)
        => /\ Len(results) = 2
           /\ { results[i].phone_number : i \in DOMAIN results }
                 = {Chars("01112345678"), Chars("01212345678")}
           /\ \A i \in DOMAIN results : results[i].carrier = Orange

C13_Witness ==
    /\ cpc = "processed"
    /\ ctext = ScenarioB
    /\ Len(results) = 2
    /\ results[1].phone_number = Chars("01112345678")
    /\ results[1].carrier = Orange

-----------------------------------------------------------------------------
(* The wallet flag of the records (checked under Spec)                     *)

\* the three spellings of the claim
WalletSpellings == {Chars("WALLET"), Chars("Wallet"), Chars("wallet")}

\* some wallet keyword occurs in t, whatever the case of either
MentionsWallet(t) ==
    \E k \in DOMAIN wallet_keywords : Contains(Lower(t), Lower(wallet_keywords[k]))

OcrMentionsWallet == [t \in OcrTexts |-> MentionsWallet(t)]
OcrSpellsWallet == [t \in OcrTexts |-> \E w \in WalletSpellings : Contains(t, w)]

\* the records of extracted_data built from the text of attempt k
RecordsFrom(k) ==
    { i \in DOMAIN extracted_data : extracted_data[i].extracted_text = calls[k].text }

\* C15: detect_wallet_mentions is case-insensitive ("WALLET", "Wallet", "wallet" all
\* match) and the flag is attached uniformly: all records produced from one text
\* carry the same has_wallet value, true iff the text contains a wallet keyword.
C15_WalletFlagUniform ==
    \A k \in DOMAIN calls :
        Yields(calls[k]) =>
            \A i \in RecordsFrom(k) :
                /\ extracted_data[i].has_wallet = OcrMentionsWallet[calls[k].text]
                /\ OcrSpellsWallet[calls[k].text] => extracted_data[i].has_wallet

\* a text with the keyword in upper case and several numbers: every record of the
\* returned list is flagged
C15_Witness ==
    /\ pc = "returned"
    /\ result = extracted_data
    /\ \E k \in DOMAIN calls :
          /\ Yields(calls[k])
          /\ calls[k].text = Chars("WALLET 01012345678 01512345678")
          /\ Cardinality(RecordsFrom(k)) >= 2
          /\ \A i \in RecordsFrom(k) : result[i].has_wallet

-----------------------------------------------------------------------------
(* Failure handling of the entry points (checked under Spec)               *)

\* what a call returns when OCR works and no attempt finds a number
FoundNothingResult == ManualFallback(<<>>)

\* C16 as stated: when the OCR capability is unavailable (engine missing, so every
\* recognition call fails), the pipeline does not attempt extraction, and what it
\* returns differs from what it returns when it found nothing.
C16_UnavailableReported ==
    engine = "missing"
        => /\ calls = <<>>
           /\ (pc = "returned" /\ source = "image") => result # FoundNothingResult

\* C17: when there is no source image (clipboard holds no image, or the file cannot
\* be opened), extraction ends at once with no preprocessing or OCR attempt, no
\* retry, and no phone record returned.
C17_NoInputEndsCall ==
    source \in {"absent", "unreadable"}
        => /\ pc = "returned"
           /\ calls = <<>>
           /\ extracted_data = <<>>
           /\ result = <<>>

\* a second call found no image on the clipboard
C17_Witness ==
    /\ ncalls = 2
    /\ entry = "clipboard"
    /\ source = "absent"
    /\ pc = "returned"
    /\ result = <<>>

-----------------------------------------------------------------------------
(* Properties of preprocess_image (checked under SpecPre)                  *)

\* C18 as stated: if any transform step of preprocess_image fails (conversion,
\* resize, or one of the three enhancements), preprocess_image returns the caller's
\* original, unmodified image, not a partially transformed one.
C18_OriginalOnFailure ==
    (ppc = "returned" /\ praised) => pout = pimage

-----------------------------------------------------------------------------
(* The normalization step applied twice (checked under SpecText)           *)

\* x is a valid number written bare, or with +20, 0020 or 20 in place of its 0
AcceptedForm(x) ==
    \/ WellFormedPhone(x)
    \/ \E cc \in CountryCodes :
          /\ StartsWith(x, cc)
          /\ WellFormedPhone(<<"0">> \o DropFirst(x, Len(cc)))

\* C19 as stated: canonicalization is idempotent: the format-normalization step of
\* extract_phone_numbers (separator stripping and country-code replacement) applied
\* twice to an accepted input form (+20..., 0020..., 20..., bare 11-digit) gives the
\* same string as applied once.
C19_NormalizeIdempotent ==
    (tpc = "normalized" /\ AcceptedForm(text)) => twice = once

-----------------------------------------------------------------------------
(* Texts without a number (checked under SpecText)                         *)

\* t holds n consecutive ASCII digits somewhere
HasDigitRun(t, n) ==
    \E i \in 1..(Len(t) - n + 1) : \A j \in i..(i + n - 1) : t[j] \in AsciiDigits

\* the number of ASCII digits of t
RECURSIVE DigitCount(_)
DigitCount(t) ==
    IF t = <<>> THEN 0
    ELSE (IF Head(t) \in AsciiDigits THEN 1 ELSE 0) + DigitCount(Tail(t))

-----------------------------------------------------------------------------
(* The manual fallback and the independence of calls (checked under Spec)  *)

\* the record of Method 3 for one number
ManualRecord(phone) ==
    [ phone_number |-> phone, carrier |-> Etisalat, has_wallet |-> FALSE,
      extracted_text |-> ManualText ]

IsManual(r) == r.extracted_text = ManualText

\* C21: when no number is found by either preprocessing variant,
\* extract_from_image_data returns exactly the fixed records 01128794048 and
\* 01128794050, each with carrier Etisalat and has_wallet false; these records are
\* never mixed with records derived from a recognised text.
C21_ManualSetExactNeverMixed ==
    /\ AllAttemptsFruitless =>
          result = <<ManualRecord(Chars("01128794048")), ManualRecord(Chars("01128794050"))>>
    /\ \A data \in {result, extracted_data} :
          (\E i \in DOMAIN data : IsManual(data[i])) =>
              /\ \A i \in DOMAIN data : IsManual(data[i])
              /\ \A k \in DOMAIN calls : ~Yields(calls[k])
    /\ (\E k \in DOMAIN calls : Yields(calls[k])) =>
          \A i \in DOMAIN extracted_data : extracted_data[i].extracted_text \in OcrTexts

\* the six attempts all returned a text, none with a number
C21_Witness ==
    /\ AllAttemptsFruitless
    /\ \A k \in DOMAIN calls : ~calls[k].raised
    /\ \E k \in DOMAIN calls : calls[k].text = Chars("no number here")
    /\ Len(result) = 2
    /\ IsManual(result[1]) /\ IsManual(result[2])

\* the attempts of the current call that found a number
YieldingCalls == { k \in DOMAIN calls : Yields(calls[k]) }

\* the records a call returns, from the texts of its own attempts alone: those of
\* the one text with numbers, or the two fixed records when there is none
RecordsOfAttempts ==
    IF YieldingCalls = {}
    THEN { ManualRecord(manual_numbers[i]) : i \in DOMAIN manual_numbers }
    ELSE LET t == calls[CHOOSE k \in YieldingCalls : TRUE].text
         IN  { OcrRecords[t][p] : p \in OcrPhones[t] }

\* C22: calls are independent: whatever calls came before on the processor
\* (successful, failed or fallback), a call whose attempts return the same texts
\* returns the same set of records, the set its own texts determine; nothing of an
\* earlier call is visible in it.
C22_CallsIndependent ==
    /\ (pc = "returned" /\ source = "image") =>
          { result[i] : i \in DOMAIN result } = RecordsOfAttempts
    /\ \A i \in DOMAIN extracted_data :
          \/ \E k \in DOMAIN calls : extracted_data[i].extracted_text = calls[k].text
          \/ pc = "returned" /\ YieldingCalls = {} /\ IsManual(extracted_data[i])
    /\ pc \in {"sweep", "method2"} => result = <<>>

\* the second call on the processor: its second configuration read one number
C22_Witness ==
    /\ ncalls = 2
    /\ pc = "returned"
    /\ source = "image"
    /\ Len(calls) = 2
    /\ calls[1].raised
    /\ calls[2].text = Chars("tel +201098765432")
    /\ Len(result) = 1
    /\ result[1].phone_number = Chars("01098765432")

-----------------------------------------------------------------------------
(* The pattern loop and the dense scan compared (checked under SpecText)   *)

\* x is what an international pattern matches: +20, 0020 or 20, then the ten
\* national digits of a valid number
InternationalMatch(x) ==
    \E cc \in CountryCodes :
        /\ StartsWith(x, cc)
        /\ WellFormedPhone(<<"0">> \o DropFirst(x, Len(cc)))

\* the last n characters of x
LastChars(x, n) == SubSeq(x, Len(x) - n + 1, Len(x))

\* C23 as stated: the prefix-replacement step turns every match of the three
\* international patterns into the 11-character string 0 + the match's ten national
\* digits, which passes validate_egyptian_phone and is added by this step itself.
C23_InternationalMatchCanonical ==
    (tpc = "normalized" /\ InternationalMatch(text))
        => /\ Len(once) = 11
           /\ once = <<"0">> \o LastChars(text, 10)
           /\ validate_egyptian_phone(once)
           /\ once \in PatternPass(<<"a">> \o text)

\* the ASCII digits of t, in order
RECURSIVE Projection(_)
Projection(t) ==
    IF t = <<>> THEN <<>>
    ELSE (IF Head(t) \in AsciiDigits THEN <<Head(t)>> ELSE <<>>) \o Projection(Tail(t))

\* the 11-character windows of the digit-only projection that are valid numbers
ValidWindows(t) ==
    LET d == Projection(t)
    IN  { w \in { SubSeq(d, i, i + 10) : i \in 1..(Len(d) - 10) } : WellFormedPhone(w) }

\* C28: the regex pass adds nothing beyond the dense scan: for every text the set
\* extract_phone_numbers returns is the set of 11-character windows of the text's
\* digit-only projection that pass validate_egyptian_phone.
C28_RegexWithinDenseScan ==
    tpc = "extracted" => phones = ValidWindows(text)

\* a number written with separators: the second pattern matches it, and it is a
\* window of the projection
C28_Witness ==
    /\ tpc = "extracted"
    /\ text = Chars("a 010-1234 5678")
    /\ PatternPass(text) = {Chars("01012345678")}
    /\ phones = {Chars("01012345678")}

-----------------------------------------------------------------------------
(* The customer store (checked under SpecStore)                            *)

PhonesOf(rows, national_id) == { r \in rows : r.customer_national_id = national_id }

\* C24: after delete_customer no phone number of the deleted customer remains
\* stored: in every reachable state of the store every phone_numbers row
\* references an existing customer (so a customer added again under a deleted
\* national ID starts with no phone numbers).
C24_NoPhoneOutlivesCustomer ==
    \A r \in phone_numbers : get_customer(customers, r.customer_national_id) # {}

\* C25: a customer never has the same phone_number stored twice, whatever the
\* carriers of the two calls.
C25_NumberOncePerCustomer ==
    \A r1, r2 \in phone_numbers :
        (r1.customer_national_id = r2.customer_national_id
            /\ r1.phone_number = r2.phone_number) => r1 = r2

\* what add_customer demands of a national ID, written out: 14 characters, all of
\* them digits (str.isdigit, which also accepts digits outside ASCII), the first
\* one 2 or 3
WellFormedId(national_id) ==
    /\ Len(national_id) = NationalIdLen
    /\ \A i \in 1..Len(national_id) : IsDigitChar(national_id[i])
    /\ national_id[1] \in {"2", "3"}

\* C26: add_customer stores a customer only when the national ID is 14 digits
\* starting with 2 or 3, the stripped name has at least 2 characters and no
\* customer with that ID exists; in every other case it raises and leaves the
\* store unchanged, so national IDs stay unique and a stored customer's name and
\* notes are never overwritten by add_customer.
C26_AddCustomerGuarded ==
    [][ last'.op = "add_customer" =>
          /\ last'.error = "none" =>
                \E c \in customers' \ customers :
                    /\ customers' = customers \cup {c}
                    /\ WellFormedId(c.national_id)
                    /\ Len(c.name) >= 2
                    /\ c.name = Strip(c.name)
                    /\ get_customer(customers, c.national_id) = {}
          /\ last'.error # "none" => store' = store
          /\ customers \subseteq customers'
          /\ \A c1, c2 \in customers' : c1.national_id = c2.national_id => c1 = c2
          /\ <<phone_numbers, seq>>' = <<phone_numbers, seq>> ]_vars

\* add_customer was called with the ID of a customer stored under another name:
\* the call ended with the error and the stored customer is as it was
C26_Witness ==
    /\ last.op = "add_customer"
    /\ last.error = "customer exists"
    /\ \E c \in customers : c.name = Chars("Ali") /\ c.notes = <<>>

\* the k-th smallest member of a set of numbers
Kth(S, k) == CHOOSE x \in S : Cardinality({ y \in S : y < x }) = k - 1

\* the members of items at the positions in S, in the order of the list
ItemsAt(items, S) == [ k \in 1..Cardinality(S) |-> items[Kth(S, k)] ]

\* item i of a batch for national_id can be added on top of rows: it has both
\* keys, the customer is stored, carrier and number are accepted, and the same
\* number under the same carrier is neither stored nor earlier in the list
Addable(custs, rows, national_id, items, i) ==
    /\ {"carrier", "phone_number"} \subseteq DOMAIN items[i]
    /\ get_customer(custs, national_id) # {}
    /\ \E k \in 1..Len(accepted_carriers) : accepted_carriers[k] = items[i].carrier
    /\ validate_phone_number(items[i].phone_number, items[i].carrier)
    /\ ~\E r \in PhonesOf(rows, national_id) :
            r.carrier = items[i].carrier /\ r.phone_number = items[i].phone_number
    /\ ~\E j \in 1..(i - 1) :
            /\ {"carrier", "phone_number"} \subseteq DOMAIN items[j]
            /\ items[j].carrier = items[i].carrier
            /\ items[j].phone_number = items[i].phone_number

\* C27: batch_add_phone_numbers goes through the whole list in order and puts
\* each item in exactly one of success and errors (their lengths add up to the
\* length of the input); an item that fails does not keep a later item from
\* being added, and exactly the items in success were added to the store.
C27_BatchPartitionsItems ==
    [][ last'.op = "batch_add_phone_numbers" =>
          LET items == last'.items
              national_id == last'.national_id
              good == { i \in 1..Len(items) :
                          Addable(customers, phone_numbers, national_id, items, i) }
              bad == (1..Len(items)) \ good
              added == phone_numbers' \ phone_numbers
          IN  /\ Len(last'.success) + Len(last'.errors) = Len(items)
              /\ last'.success = ItemsAt(items, good)
              /\ [ k \in 1..Len(last'.errors) |-> last'.errors[k].phone_data ]
                    = ItemsAt(items, bad)
              /\ phone_numbers \subseteq phone_numbers'
              /\ Cardinality(added) = Len(last'.success)
              /\ \A k \in 1..Len(last'.success) :
                    \E r \in added :
                        /\ r.customer_national_id = national_id
                        /\ r.carrier = last'.success[k].carrier
                        /\ r.phone_number = last'.success[k].phone_number
              /\ customers' = customers ]_vars

\* a batch whose first item failed and whose second item was added
C27_Witness ==
    /\ last.op = "batch_add_phone_numbers"
    /\ Len(last.items) = 2
    /\ Len(last.errors) = 1
    /\ last.errors[1].phone_data = last.items[1]
    /\ last.success = <<last.items[2]>>
    /\ \E r \in phone_numbers :
          /\ r.customer_national_id = last.national_id
          /\ r.phone_number = last.items[2].phone_number
          /\ r.carrier = last.items[2].carrier

-----------------------------------------------------------------------------
(* The extracted records at the customer store (checked under Spec)        *)

IsAcceptedCarrier(c) == \E k \in 1..Len(accepted_carriers) : accepted_carriers[k] = c

\* C29: every record returned by extract_from_image_data, whichever tier or the
\* manual fallback produced it, passes the validation of the customer store: its
\* carrier is one of the four accepted ones and validate_phone_number accepts its
\* number for that carrier, so add_phone_number stores it for a customer who
\* does not have it yet.
C29_RecordsPassStoreValidation ==
    pc = "returned" =>
        \A i \in DOMAIN result :
            /\ IsAcceptedCarrier(result[i].carrier)
            /\ validate_phone_number(result[i].phone_number, result[i].carrier)
            /\ add_phone_number({[national_id |-> IdA, name |-> Chars("Bo"), notes |-> <<>>]},
                                {}, 0, IdA, result[i].carrier, result[i].phone_number,
                                result[i].has_wallet).error = "none"

-----------------------------------------------------------------------------
(* The manual add-phone dialogs at the customer store (checked under       *)
(* SpecStore)                                                              *)

\* C30: every carrier value the manual add-phone dialogs of ModernCustomerDialog
\* and PhoneManagementDialog can submit is one of the four carrier names that
\* add_phone_number accepts, so a number entered by hand is never rejected
\* with the invalid-carrier error.
C30_DialogCarriersAccepted ==
    last.op \in {"manual_add_phone", "add_customer_dialog"} => last.error # "invalid carrier"

====
